---------------------------- MODULE Spec2Model ----------------------------
(***************************************************************************)
(* FACT-G / FACT-E questionnaire scoring (FACT_G_scoring.py,               *)
(* FACT_E_scoring.py).                                                     *)
(*                                                                         *)
(* A DataFrame is a record [columns, index, data]: the ordered column      *)
(* names, the number of rows, and one Series [dtype, values] per column.   *)
(* A cell is a rational <<num, den>> with den > 0; float NaN is <<0, 0>>   *)
(* (the value of 0/0) and float inf is <<1, 0>>.  Float rounding is        *)
(* abstracted: arithmetic on cells is exact rational arithmetic.           *)
(***************************************************************************)
EXTENDS Integers, Sequences, FiniteSets, TLC

VARIABLES
    script,        \* which program runs: "FACT_G" or "FACT_E"
    pc,            \* position in main(), or in the function application
    input_file,    \* the file at args.input
    df,            \* main's df (the table read), or the function argument
    df_extracted,  \* main's df_extracted
    df_scored,     \* main's df_scored, or the function result
    output_file,   \* the file at args.output
    printed,       \* what main has printed, in order
    status,        \* main's return value, -1 while running
    first_scored,  \* df_scored of the previous run, when re-running on the output
    run            \* 1, or 2 when the input is the previous run's output

vars == <<script, pc, input_file, df, df_extracted, df_scored, output_file,
          printed, status, first_scored, run>>

---------------------------------------------------------------------------
(* Cells: float64 / int64 values.                                          *)

NaN == <<0, 0>>
Inf == <<1, 0>>
Num(n) == <<n, 1>>

isna(x) == x = NaN
notna(x) == x # NaN
isfinite(x) == x[2] # 0

Abs(n) == IF n < 0 THEN 0 - n ELSE n

RECURSIVE GCD(_, _)
GCD(a, b) == IF b = 0 THEN a ELSE GCD(b, a % b)

\* n/d in lowest terms, d > 0
Ratio(n, d) ==
    LET g == GCD(Abs(n), d)
    IN  IF n < 0 THEN <<0 - (Abs(n) \div g), d \div g>> ELSE <<n \div g, d \div g>>

FAdd(a, b) ==
    IF isna(a) \/ isna(b) THEN NaN
    ELSE IF ~isfinite(a) \/ ~isfinite(b) THEN Inf
    ELSE Ratio(a[1] * b[2] + b[1] * a[2], a[2] * b[2])

FSub(a, b) ==
    IF isna(a) \/ isna(b) THEN NaN
    ELSE IF ~isfinite(a) \/ ~isfinite(b) THEN Inf
    ELSE Ratio(a[1] * b[2] - b[1] * a[2], a[2] * b[2])

FMul(a, b) ==
    IF isna(a) \/ isna(b) THEN NaN
    ELSE IF ~isfinite(a) \/ ~isfinite(b) THEN Inf
    ELSE Ratio(a[1] * b[1], a[2] * b[2])

\* pandas / numpy true division: 0/0 is NaN, x/0 is inf, no exception
FDiv(a, b) ==
    IF isna(a) \/ isna(b) THEN NaN
    ELSE IF ~isfinite(a) THEN Inf
    ELSE IF ~isfinite(b) THEN Num(0)
    ELSE IF b[1] = 0 THEN (IF a[1] = 0 THEN NaN ELSE Inf)
    ELSE Ratio(a[1] * b[2], a[2] * b[1])

\* a >= b; every comparison with NaN is False
FGe(a, b) ==
    IF isna(a) \/ isna(b) THEN FALSE
    ELSE IF ~isfinite(a) THEN TRUE
    ELSE IF ~isfinite(b) THEN FALSE
    ELSE a[1] * b[2] >= b[1] * a[2]

---------------------------------------------------------------------------
(* DataFrames.                                                             *)

Range(s) == {s[i] : i \in DOMAIN s}

Ok(d) == [raised |-> "", key |-> "", df |-> d]
\* str(KeyError(col)) is the quoted label
KeyError(col, d) == [raised |-> "KeyError", key |-> "'" \o col \o "'", df |-> d]

has_column(d, col) == col \in Range(d.columns)

\* df[col] = s
df_setitem(d, col, s) ==
    [columns |-> IF has_column(d, col) THEN d.columns ELSE Append(d.columns, col),
     index   |-> d.index,
     data    |-> (col :> s) @@ d.data]

\* df[cols] for a list of labels: KeyError when a label is no column of df
df_getitems(d, cols) ==
    IF \E j \in DOMAIN cols : ~has_column(d, cols[j])
    THEN KeyError(cols[CHOOSE j \in DOMAIN cols :
                         /\ ~has_column(d, cols[j])
                         /\ \A k \in 1..(j - 1) : has_column(d, cols[k])], d)
    ELSE Ok([columns |-> cols,
             index   |-> d.index,
             data    |-> [c \in Range(cols) |-> d.data[c]]])

\* faulty variant: the reverse score taken on a 1..5 scale
rsub_from_five(k, s) ==
    [dtype  |-> s.dtype,
     values |-> [i \in DOMAIN s.values |-> FSub(Num(k + 1), s.values[i])]]

\* 4 - df[col]
rsub(k, s) ==
    [dtype  |-> s.dtype,
     values |-> [i \in DOMAIN s.values |-> FSub(Num(k), s.values[i])]]

\* df[cols].notna().sum(axis=1)
notna_sum(d, cols) ==
    [i \in 1..d.index |->
        Cardinality({j \in DOMAIN cols : notna(d.data[cols[j]].values[i])})]

RECURSIVE row_sum(_, _, _, _)
row_sum(d, cols, i, j) ==
    IF j > Len(cols) THEN Num(0)
    ELSE LET x == d.data[cols[j]].values[i]
         IN  IF isna(x) THEN row_sum(d, cols, i, j + 1)
             ELSE FAdd(x, row_sum(d, cols, i, j + 1))

\* df[cols].sum(axis=1, skipna=True)
sum_skipna(d, cols) == [i \in 1..d.index |-> row_sum(d, cols, i, 1)]

\* [f"{col}_score" for col in cols]
score_names(cols) == [j \in DOMAIN cols |-> cols[j] \o "_score"]

float_series(vals) == [dtype |-> "float64", values |-> vals]
int_series(vals) == [dtype |-> "int64", values |-> vals]

---------------------------------------------------------------------------
(* FACT_E_scoring.py                                                       *)

\* the for loop of calculate_subscale_score, from cols[j] on
RECURSIVE E_item_scores(_, _, _, _)
E_item_scores(d, cols, reverse_items, j) ==
    IF j > Len(cols) THEN Ok(d)
    ELSE IF ~has_column(d, cols[j]) THEN KeyError(cols[j], d)
    ELSE IF reverse_items # <<>> /\ cols[j] \in Range(reverse_items)
         THEN E_item_scores(df_setitem(d, cols[j] \o "_score", rsub(4, d.data[cols[j]])),
                            cols, reverse_items, j + 1)
         ELSE E_item_scores(df_setitem(d, cols[j] \o "_score", d.data[cols[j]]),
                            cols, reverse_items, j + 1)

\* faulty variant: the 50% threshold by floor division
E_min_items_required_floor(cols) == Num(Len(cols) \div 2)

E_min_items_required(cols) == FDiv(Num(Len(cols)), Num(2))

\* faulty variant: the sum of the answered items, not prorated
E_subscale_column_unprorated(d, cols) ==
    [dtype  |-> "float64",
     values |-> [i \in 1..d.index |->
                   IF FGe(Num(notna_sum(d, score_names(cols))[i]), FDiv(Num(Len(cols)), Num(2)))
                   THEN sum_skipna(d, score_names(cols))[i] ELSE NaN]]

E_subscale_column(d, cols) ==
    LET score_cols         == score_names(cols)
        num_answered_items == notna_sum(d, score_cols)
        total              == sum_skipna(d, score_cols)
    IN  float_series(
          [i \in 1..d.index |->
             LET prorated == FDiv(FMul(total[i], Num(Len(cols))), Num(num_answered_items[i]))
             IN  IF FGe(Num(num_answered_items[i]), E_min_items_required(cols))
                 THEN prorated ELSE NaN])

\* the subscale column, set once every item score column is
E_set_subscale_score(r, cols, subscale_name) ==
    IF r.raised # "" THEN r
    ELSE Ok(df_setitem(r.df, subscale_name \o "_subscale_score",
                       E_subscale_column(r.df, cols)))

E_calculate_subscale_score(d, cols, reverse_items, subscale_name) ==
    E_set_subscale_score(E_item_scores(d, cols, reverse_items, 1), cols, subscale_name)

\* a later statement of the calling function: skipped once an exception is raised
E_then_subscale(r, cols, reverse_items, subscale_name) ==
    IF r.raised # "" THEN r
    ELSE E_calculate_subscale_score(r.df, cols, reverse_items, subscale_name)

pwb_cols == <<"gp1", "gp2", "gp3", "gp4", "gp5", "gp6", "gp7">>
swb_cols == <<"gs1", "gs2", "gs3", "gs4", "gs5", "gs6", "gs7">>
ewb_cols == <<"ge1", "ge2", "ge3", "ge4", "ge5", "ge6">>
fwb_cols == <<"gf1", "gf2", "gf3", "gf4", "gf5", "gf6", "gf7">>
ecs_cols == <<"a_hn1", "a_hn2", "a_hn3", "a_hn4", "a_hn5", "a_hn7", "a_hn10",
              "a_e1", "a_e2", "a_e3", "a_e4", "a_e5", "a_e6", "a_e7",
              "a_c6", "a_c2", "a_act11">>
ewb_reverse_items == <<"ge1", "ge3", "ge4", "ge5", "ge6">>
ecs_reverse_items == <<"a_e1", "a_e2", "a_e3", "a_e4", "a_e5", "a_e7", "a_act11",
                       "a_c2", "a_hn2", "a_hn3">>
None == <<>>

fact_g_items == pwb_cols \o swb_cols \o ewb_cols \o fwb_cols
fact_e_items == fact_g_items \o ecs_cols
toi_items == pwb_cols \o fwb_cols \o ecs_cols

E_fact_g_min_items == 22
fact_e_min_items == 36
toi_min_items == 25

col_values(d, name) == d.data[name].values

\* faulty variant: fact_g_total without the 80% gate
E_fact_g_total_column_ungated(d) ==
    [dtype  |-> "float64",
     values |-> [i \in 1..d.index |->
                   FAdd(FAdd(FAdd(col_values(d, "pwb_subscale_score")[i],
                                  col_values(d, "swb_subscale_score")[i]),
                             col_values(d, "ewb_subscale_score")[i]),
                        col_values(d, "fwb_subscale_score")[i])]]

E_fact_g_total_column(d) ==
    LET fact_g_num_answered == notna_sum(d, score_names(fact_g_items))
    IN  float_series(
          [i \in 1..d.index |->
             IF /\ notna(col_values(d, "pwb_subscale_score")[i])
                /\ notna(col_values(d, "swb_subscale_score")[i])
                /\ notna(col_values(d, "ewb_subscale_score")[i])
                /\ notna(col_values(d, "fwb_subscale_score")[i])
                /\ fact_g_num_answered[i] >= E_fact_g_min_items
             THEN FAdd(FAdd(FAdd(col_values(d, "pwb_subscale_score")[i],
                                 col_values(d, "swb_subscale_score")[i]),
                            col_values(d, "ewb_subscale_score")[i]),
                       col_values(d, "fwb_subscale_score")[i])
             ELSE NaN])

\* faulty variant: fact_e_total summed from the five subscale scores, gated on the
\* 44-item count alone
fact_e_total_column_one_level(d) ==
    [dtype  |-> "float64",
     values |-> [i \in 1..d.index |->
                   IF notna_sum(d, score_names(fact_e_items))[i] >= fact_e_min_items
                   THEN FAdd(FAdd(FAdd(FAdd(col_values(d, "pwb_subscale_score")[i],
                                            col_values(d, "swb_subscale_score")[i]),
                                       col_values(d, "ewb_subscale_score")[i]),
                                  col_values(d, "fwb_subscale_score")[i]),
                             col_values(d, "ecs_subscale_score")[i])
                   ELSE NaN]]

fact_e_total_column(d) ==
    LET fact_e_num_answered == notna_sum(d, score_names(fact_e_items))
    IN  float_series(
          [i \in 1..d.index |->
             IF /\ notna(col_values(d, "fact_g_total")[i])
                /\ notna(col_values(d, "ecs_subscale_score")[i])
                /\ fact_e_num_answered[i] >= fact_e_min_items
             THEN FAdd(col_values(d, "fact_g_total")[i],
                       col_values(d, "ecs_subscale_score")[i])
             ELSE NaN])

toi_column(d) ==
    LET toi_num_answered == notna_sum(d, score_names(toi_items))
    IN  float_series(
          [i \in 1..d.index |->
             IF /\ notna(col_values(d, "pwb_subscale_score")[i])
                /\ notna(col_values(d, "fwb_subscale_score")[i])
                /\ notna(col_values(d, "ecs_subscale_score")[i])
                /\ toi_num_answered[i] >= toi_min_items
             THEN FAdd(FAdd(col_values(d, "pwb_subscale_score")[i],
                            col_values(d, "fwb_subscale_score")[i]),
                       col_values(d, "ecs_subscale_score")[i])
             ELSE NaN])

E_set_fact_g_total(d) == df_setitem(d, "fact_g_total", E_fact_g_total_column(d))
set_fact_e_total(d) == df_setitem(d, "fact_e_total", fact_e_total_column(d))
set_toi(d) == df_setitem(d, "toi", toi_column(d))

E_set_composites(r) ==
    IF r.raised # "" THEN r
    ELSE Ok(set_toi(set_fact_e_total(E_set_fact_g_total(r.df))))

calculate_fact_e_scores(d) ==
    E_set_composites(
      E_then_subscale(
        E_then_subscale(
          E_then_subscale(
            E_then_subscale(
              E_calculate_subscale_score(d, pwb_cols, pwb_cols, "pwb"),
              swb_cols, None, "swb"),
            ewb_cols, ewb_reverse_items, "ewb"),
          fwb_cols, None, "fwb"),
        ecs_cols, ecs_reverse_items, "ecs"))

E_columns_to_extract ==
    <<"id">> \o pwb_cols \o swb_cols \o ewb_cols \o fwb_cols
    \o <<"a_hn1", "a_hn2", "a_hn3", "a_hn4", "a_hn5">> \o <<"a_hn7", "a_hn10">>
    \o <<"a_e1", "a_e2", "a_e3", "a_e4", "a_e5", "a_e6", "a_e7">>
    \o <<"a_c6", "a_c2">> \o <<"a_act11">>

\* faulty variant: the columns kept in the order of the input table
extract_fact_e_columns_input_order(d) ==
    df_getitems(d, SelectSeq(d.columns, LAMBDA col : col \in Range(E_columns_to_extract)))

extract_fact_e_columns(d) ==
    LET existing_columns == SelectSeq(E_columns_to_extract, LAMBDA col : has_column(d, col))
    IN  df_getitems(d, existing_columns)

E_score_columns ==
    <<"pwb_subscale_score", "swb_subscale_score", "ewb_subscale_score",
      "fwb_subscale_score", "ecs_subscale_score", "fact_g_total",
      "fact_e_total", "toi">>

---------------------------------------------------------------------------
(* FACT_G_scoring.py                                                       *)

\* the for loop of calculate_subscale_score, from cols[j] on
RECURSIVE G_item_scores(_, _, _, _)
G_item_scores(d, cols, reverse_items, j) ==
    IF j > Len(cols) THEN Ok(d)
    ELSE IF ~has_column(d, cols[j]) THEN KeyError(cols[j], d)
    ELSE IF reverse_items # <<>> /\ cols[j] \in Range(reverse_items)
         THEN G_item_scores(df_setitem(d, cols[j] \o "_score", rsub(4, d.data[cols[j]])),
                            cols, reverse_items, j + 1)
         ELSE G_item_scores(df_setitem(d, cols[j] \o "_score", d.data[cols[j]]),
                            cols, reverse_items, j + 1)

G_min_items_required(cols) == FDiv(Num(Len(cols)), Num(2))

G_subscale_column(d, cols) ==
    LET score_cols         == score_names(cols)
        num_answered_items == notna_sum(d, score_cols)
        total              == sum_skipna(d, score_cols)
    IN  float_series(
          [i \in 1..d.index |->
             LET prorated == FDiv(FMul(total[i], Num(Len(cols))), Num(num_answered_items[i]))
             IN  IF FGe(Num(num_answered_items[i]), G_min_items_required(cols))
                 THEN prorated ELSE NaN])

\* the subscale column, set once every item score column is
G_set_subscale_score(r, cols, subscale_name) ==
    IF r.raised # "" THEN r
    ELSE Ok(df_setitem(r.df, subscale_name \o "_subscale_score",
                       G_subscale_column(r.df, cols)))

G_calculate_subscale_score(d, cols, reverse_items, subscale_name) ==
    G_set_subscale_score(G_item_scores(d, cols, reverse_items, 1), cols, subscale_name)

\* a later statement of the calling function: skipped once an exception is raised
G_then_subscale(r, cols, reverse_items, subscale_name) ==
    IF r.raised # "" THEN r
    ELSE G_calculate_subscale_score(r.df, cols, reverse_items, subscale_name)

G_pwb_cols == <<"gp1", "gp2", "gp3", "gp4", "gp5", "gp6", "gp7">>
G_swb_cols == <<"gs1", "gs2", "gs3", "gs4", "gs5", "gs6", "gs7">>
G_ewb_cols == <<"ge1", "ge2", "ge3", "ge4", "ge5", "ge6">>
G_fwb_cols == <<"gf1", "gf2", "gf3", "gf4", "gf5", "gf6", "gf7">>
\* faulty variant: every EWB item reverse-scored
G_ewb_reverse_items_all == G_ewb_cols

G_ewb_reverse_items == <<"ge1", "ge3", "ge4", "ge5", "ge6">>
G_fact_g_items == G_pwb_cols \o G_swb_cols \o G_ewb_cols \o G_fwb_cols
G_fact_g_min_items == 22

G_fact_g_total_column(d) ==
    LET fact_g_num_answered == notna_sum(d, score_names(G_fact_g_items))
    IN  float_series(
          [i \in 1..d.index |->
             IF /\ notna(col_values(d, "pwb_subscale_score")[i])
                /\ notna(col_values(d, "swb_subscale_score")[i])
                /\ notna(col_values(d, "ewb_subscale_score")[i])
                /\ notna(col_values(d, "fwb_subscale_score")[i])
                /\ fact_g_num_answered[i] >= G_fact_g_min_items
             THEN FAdd(FAdd(FAdd(col_values(d, "pwb_subscale_score")[i],
                                 col_values(d, "swb_subscale_score")[i]),
                            col_values(d, "ewb_subscale_score")[i]),
                       col_values(d, "fwb_subscale_score")[i])
             ELSE NaN])

G_set_fact_g_total(r) ==
    IF r.raised # "" THEN r
    ELSE Ok(df_setitem(r.df, "fact_g_total", G_fact_g_total_column(r.df)))

calculate_fact_g_scores(d) ==
    G_set_fact_g_total(
      G_then_subscale(
        G_then_subscale(
          G_then_subscale(
            G_calculate_subscale_score(d, G_pwb_cols, G_pwb_cols, "pwb"),
            G_swb_cols, None, "swb"),
          G_ewb_cols, G_ewb_reverse_items, "ewb"),
        G_fwb_cols, None, "fwb"))

G_columns_to_extract ==
    <<"id">> \o G_pwb_cols \o G_swb_cols \o G_ewb_cols \o G_fwb_cols

extract_fact_g_columns(d) ==
    LET existing_columns == SelectSeq(G_columns_to_extract, LAMBDA col : has_column(d, col))
    IN  df_getitems(d, existing_columns)

G_score_columns ==
    <<"pwb_subscale_score", "swb_subscale_score", "ewb_subscale_score",
      "fwb_subscale_score", "fact_g_total">>

---------------------------------------------------------------------------
(* Input rows of the function-level specification.                         *)

NumStyles == 2

\* raw answer to the j-th item of a subscale under value pattern st:
\* st = 0 answers 0 everywhere, st = 1 answers 1, 2, 3, 4, 0, 1, ...
raw_value(j, st) == (j * st) % 5

\* a subscale of n items with k of them answered: the first k (odd st) or
\* the last k (even st)
is_answered(j, n, k, st) == IF st % 2 = 1 THEN j <= k ELSE j > n - k

subscale_cells(cols, k, st) ==
    [c \in Range(cols) |->
        LET j == CHOOSE jj \in DOMAIN cols : cols[jj] = c
        IN  IF is_answered(j, Len(cols), k, st)
            THEN int_series(<<Num(raw_value(j, st))>>)
            ELSE float_series(<<NaN>>)]

one_row(k, st) ==
    [columns |-> <<"id">> \o fact_e_items,
     index   |-> 1,
     data    |-> ("id" :> int_series(<<Num(1)>>))
                 @@ subscale_cells(pwb_cols, k[1], st)
                 @@ subscale_cells(swb_cols, k[2], st)
                 @@ subscale_cells(ewb_cols, k[3], st)
                 @@ subscale_cells(fwb_cols, k[4], st)
                 @@ subscale_cells(ecs_cols, k[5], st)]

\* answered counts <<PWB, SWB, EWB, FWB, ECS>> of the input rows: every
\* combination of counts around the 50% and 80% thresholds, and every count
\* of one subscale with the other subscales complete
Counts7 == {0, 3, 4, 5, 6, 7}
Counts6 == {0, 2, 3, 4, 5, 6}
Counts17 == {0, 8, 9, 11, 13, 15, 16, 17}
complete == <<7, 7, 6, 7, 17>>
AnsweredCounts ==
    (Counts7 \X Counts7 \X Counts6 \X Counts7 \X Counts17)
    \cup {[complete EXCEPT ![s] = k] : s \in {1, 2, 4}, k \in 0..7}
    \cup {[complete EXCEPT ![3] = k] : k \in 0..6}
    \cup {[complete EXCEPT ![5] = k] : k \in 0..17}

empty_df == [columns |-> <<>>, index |-> 0, data |-> <<>>]
no_file == [exists |-> FALSE, parsable |-> TRUE, writable |-> TRUE,
            header |-> <<>>, lines |-> <<>>]

ScoreInit ==
    /\ script = "none"
    /\ pc = "input"
    /\ \E k \in AnsweredCounts, st \in 0..(NumStyles - 1) : df = one_row(k, st)
    /\ input_file = no_file
    /\ df_extracted = empty_df
    /\ df_scored = empty_df
    /\ output_file = no_file
    /\ printed = <<>>
    /\ status = -1
    /\ first_scored = empty_df
    /\ run = 1

ApplyFactE ==
    /\ pc = "input"
    /\ df_scored' = calculate_fact_e_scores(df).df
    /\ pc' = "fact_e_scored"
    /\ UNCHANGED <<script, input_file, df, df_extracted, output_file, printed,
                   status, first_scored, run>>

ApplyFactG ==
    /\ pc = "input"
    /\ df_scored' = calculate_fact_g_scores(df).df
    /\ pc' = "fact_g_scored"
    /\ UNCHANGED <<script, input_file, df, df_extracted, output_file, printed,
                   status, first_scored, run>>

ScoreNext == ApplyFactE \/ ApplyFactG

ScoreSpec == ScoreInit /\ [][ScoreNext]_vars

---------------------------------------------------------------------------
(* CSV files: pd.read_csv and DataFrame.to_csv(index=False).               *)
(* A file is [exists, parsable, writable, header, lines]; a field of a     *)
(* line is its text, a sequence of characters.                             *)

FloatDigits == 4

DigitChars == <<"0", "1", "2", "3", "4", "5", "6", "7", "8", "9">>
digit_value(ch) == (CHOOSE n \in 1..10 : DigitChars[n] = ch) - 1

RECURSIVE nat_text(_)
nat_text(n) ==
    IF n < 10 THEN <<DigitChars[n + 1]>>
    ELSE nat_text(n \div 10) \o <<DigitChars[(n % 10) + 1]>>

int_text(n) == IF n < 0 THEN <<"-">> \o nat_text(0 - n) ELSE nat_text(n)

\* the first k decimals of r/d, 0 <= r < d, without trailing zeros
RECURSIVE decimals(_, _, _)
decimals(r, d, k) ==
    IF k = 0 \/ r = 0 THEN <<>>
    ELSE <<DigitChars[((r * 10) \div d) + 1]>> \o decimals((r * 10) % d, d, k - 1)

\* faulty variant: NaN written as 0.0
float_text_na_zero(x) ==
    IF x = NaN THEN <<"0", ".", "0">>
    ELSE LET n    == Abs(x[1])
             frac == decimals(n % x[2], x[2], FloatDigits)
         IN  nat_text(n \div x[2]) \o <<".">> \o (IF frac = <<>> THEN <<"0">> ELSE frac)

\* the text of a float64 cell: NaN is the empty field, 28 is 28.0; the
\* shortest round-trip decimal is cut to FloatDigits decimals
float_text(x) ==
    IF x = NaN THEN <<>>
    ELSE IF x = Inf THEN <<"i", "n", "f">>
    ELSE LET n    == Abs(x[1])
             frac == decimals(n % x[2], x[2], FloatDigits)
         IN  (IF x[1] < 0 THEN <<"-">> ELSE <<>>)
             \o nat_text(n \div x[2]) \o <<".">>
             \o (IF frac = <<>> THEN <<"0">> ELSE frac)

cell_text(series, i) ==
    IF series.dtype = "int64" THEN int_text(series.values[i][1])
    ELSE float_text(series.values[i])

\* df.to_csv(path, index=False)
to_csv(d) ==
    [exists   |-> TRUE,
     parsable |-> TRUE,
     writable |-> TRUE,
     header   |-> d.columns,
     lines    |-> [i \in 1..d.index |->
                     [j \in DOMAIN d.columns |-> cell_text(d.data[d.columns[j]], i)]]]

is_digits(t) == t # <<>> /\ \A j \in DOMAIN t : t[j] \in Range(DigitChars)
is_int_text(t) ==
    \/ is_digits(t)
    \/ Len(t) > 1 /\ t[1] = "-" /\ is_digits(Tail(t))

RECURSIVE parse_nat(_)
parse_nat(t) ==
    IF t = <<>> THEN 0
    ELSE parse_nat(SubSeq(t, 1, Len(t) - 1)) * 10 + digit_value(t[Len(t)])

RECURSIVE Pow10(_)
Pow10(k) == IF k = 0 THEN 1 ELSE 10 * Pow10(k - 1)

\* the value of a numeric field; the empty field is NaN
parse_number(t) ==
    IF t = <<>> THEN NaN
    ELSE IF t = <<"i", "n", "f">> THEN Inf
    ELSE LET neg    == t[1] = "-"
             u      == IF neg THEN Tail(t) ELSE t
             dots   == {j \in DOMAIN u : u[j] = "."}
             dot    == IF dots = {} THEN Len(u) + 1 ELSE CHOOSE j \in dots : TRUE
             whole  == parse_nat(SubSeq(u, 1, dot - 1))
             frac   == SubSeq(u, dot + 1, Len(u))
             scale  == Pow10(Len(frac))
             n      == whole * scale + parse_nat(frac)
         IN  Ratio(IF neg THEN 0 - n ELSE n, scale)

\* a column of the file as a Series: int64 when every field is an integer,
\* float64 otherwise
parse_column(f, j) ==
    LET texts == [i \in DOMAIN f.lines |-> f.lines[i][j]]
    IN  [dtype  |-> IF \A i \in DOMAIN texts : is_int_text(texts[i])
                    THEN "int64" ELSE "float64",
         values |-> [i \in DOMAIN texts |-> parse_number(texts[i])]]

Raise(kind, msg) == [raised |-> kind, key |-> msg, df |-> [columns |-> <<>>, index |-> 0, data |-> <<>>]]

\* pd.read_csv(path)
read_csv(f) ==
    IF ~f.exists THEN Raise("FileNotFoundError", "No such file or directory")
    ELSE IF ~f.parsable THEN Raise("ParserError", "Error tokenizing data")
    ELSE Ok([columns |-> f.header,
             index   |-> Len(f.lines),
             data    |-> [c \in Range(f.header) |->
                            parse_column(f, CHOOSE j \in DOMAIN f.header : f.header[j] = c)]])

---------------------------------------------------------------------------
(* main(): read -> extract -> score -> save -> summary.                    *)

Scripts == {"FACT_G", "FACT_E"}
instrument(s) == IF s = "FACT_G" THEN "FACT-G" ELSE "FACT-E"
extract_columns(s, d) ==
    IF s = "FACT_G" THEN extract_fact_g_columns(d) ELSE extract_fact_e_columns(d)
calculate_scores(s, d) ==
    IF s = "FACT_G" THEN calculate_fact_g_scores(d) ELSE calculate_fact_e_scores(d)
score_columns(s) == IF s = "FACT_G" THEN G_score_columns ELSE E_score_columns

msg_reading == "Reading input file"
msg_extracting(s) == "Extracting " \o instrument(s) \o " relevant columns"
msg_calculating(s) == "Calculating " \o instrument(s) \o " scores"
msg_saving == "Saving results"
msg_completed(s) == instrument(s) \o " scoring completed successfully!"
msg_summary == "Summary Statistics:"
msg_error(r) == "Error: " \o r.key

\* faulty variant: the handler returns 0
Except_returns_zero(r, announced) ==
    /\ printed' = printed \o announced \o <<msg_error(r)>>
    /\ status' = 0
    /\ pc' = "exit"

\* except Exception as e: print(f"Error: {str(e)}"); return 1
Except(r, announced) ==
    /\ printed' = printed \o announced \o <<msg_error(r)>>
    /\ status' = 1
    /\ pc' = "exit"

\* df = pd.read_csv(args.input)
Read ==
    /\ pc = "start"
    /\ LET r == read_csv(input_file)
       IN  IF r.raised # ""
           THEN /\ Except(r, <<msg_reading>>)
                /\ UNCHANGED df
           ELSE /\ df' = r.df
                /\ printed' = Append(printed, msg_reading)
                /\ pc' = "read"
                /\ UNCHANGED status
    /\ UNCHANGED <<script, input_file, df_extracted, df_scored, output_file,
                   first_scored, run>>

\* df_extracted = extract_fact_e_columns(df)
Extract ==
    /\ pc = "read"
    /\ LET r == extract_columns(script, df)
       IN  IF r.raised # ""
           THEN /\ Except(r, <<msg_extracting(script)>>)
                /\ UNCHANGED df_extracted
           ELSE /\ df_extracted' = r.df
                /\ printed' = Append(printed, msg_extracting(script))
                /\ pc' = "extracted"
                /\ UNCHANGED status
    /\ UNCHANGED <<script, input_file, df, df_scored, output_file, first_scored, run>>

\* df_scored = calculate_fact_e_scores(df_extracted)
Score ==
    /\ pc = "extracted"
    /\ LET r == calculate_scores(script, df_extracted)
       IN  IF r.raised # ""
           THEN /\ Except(r, <<msg_calculating(script)>>)
                /\ UNCHANGED df_scored
           ELSE /\ df_scored' = r.df
                /\ printed' = Append(printed, msg_calculating(script))
                /\ pc' = "scored"
                /\ UNCHANGED status
    /\ UNCHANGED <<script, input_file, df, df_extracted, output_file, first_scored, run>>

\* df_scored.to_csv(args.output, index=False)
Save ==
    /\ pc = "scored"
    /\ IF ~output_file.writable
       THEN /\ Except(Raise("PermissionError", "Permission denied"), <<msg_saving>>)
            /\ UNCHANGED output_file
       ELSE /\ output_file' = to_csv(df_scored)
            /\ printed' = Append(printed, msg_saving)
            /\ pc' = "saved"
            /\ UNCHANGED status
    /\ UNCHANGED <<script, input_file, df, df_extracted, df_scored, first_scored, run>>

\* print(df_scored[score_columns].describe().round(2)); return 0
Summary ==
    /\ pc = "saved"
    /\ LET r == df_getitems(df_scored, score_columns(script))
       IN  IF r.raised # ""
           THEN Except(r, <<msg_completed(script), msg_summary>>)
           ELSE /\ printed' = printed \o <<msg_completed(script), msg_summary>>
                /\ status' = 0
                /\ pc' = "exit"
    /\ UNCHANGED <<script, input_file, df, df_extracted, df_scored, output_file,
                   first_scored, run>>

\* the script is run again with the file it wrote as its input
Rerun ==
    /\ pc = "exit"
    /\ status = 0
    /\ run = 1
    /\ run' = 2
    /\ input_file' = output_file
    /\ output_file' = no_file
    /\ first_scored' = df_scored
    /\ df' = empty_df
    /\ df_extracted' = empty_df
    /\ df_scored' = empty_df
    /\ printed' = <<>>
    /\ status' = -1
    /\ pc' = "start"
    /\ UNCHANGED script

---------------------------------------------------------------------------
(* Input files of the program-level specification.                         *)

MaxRows == 2

\* the header of the input file
Headers ==
    << <<"id">> \o fact_e_items,                                   \* every column
       <<"age">> \o fact_e_items \o <<"id", "pwb_subscale_score">>, \* other columns too
       fact_e_items,                                               \* no id
       <<"id">> \o SelectSeq(fact_e_items, LAMBDA c : c # "gp7"),   \* gp7 absent
       <<"id">> \o SelectSeq(fact_e_items, LAMBDA c : c # "a_e1"),  \* a_e1 absent
       <<"id">> \o fact_g_items,                                   \* a FACT-G file
       SelectSeq(ecs_cols, LAMBDA c : c # "a_c6") \o fwb_cols \o ewb_cols  \* another order
           \o swb_cols \o pwb_cols \o <<"notes", "id">> >>

\* answered counts and value pattern of the rows
RowCases ==
    << <<complete, 1>>,
       << <<4, 4, 3, 4, 9>>, 1>>,
       << <<7, 6, 5, 4, 15>>, 0>>,
       << <<5, 7, 6, 7, 17>>, 1>>,
       << <<0, 0, 0, 0, 0>>, 0>> >>

item_text(cols, c, k, st) ==
    LET j == CHOOSE jj \in DOMAIN cols : cols[jj] = c
    IN  IF is_answered(j, Len(cols), k, st) THEN int_text(raw_value(j, st)) ELSE <<>>

field_text(c, i, case) ==
    LET k == case[1]
        st == case[2]
    IN  IF c = "id" THEN int_text(100 + i)
        ELSE IF c \in Range(pwb_cols) THEN item_text(pwb_cols, c, k[1], st)
        ELSE IF c \in Range(swb_cols) THEN item_text(swb_cols, c, k[2], st)
        ELSE IF c \in Range(ewb_cols) THEN item_text(ewb_cols, c, k[3], st)
        ELSE IF c \in Range(fwb_cols) THEN item_text(fwb_cols, c, k[4], st)
        ELSE IF c \in Range(ecs_cols) THEN item_text(ecs_cols, c, k[5], st)
        ELSE int_text(50 + i)

\* a file of n rows, the RowCases from the first-th on
table_file(header, first, n) ==
    [exists   |-> TRUE,
     parsable |-> TRUE,
     writable |-> TRUE,
     header   |-> header,
     lines    |-> [i \in 1..n |->
                     [j \in DOMAIN header |->
                        field_text(header[j], i,
                                   RowCases[((first + i - 2) % Len(RowCases)) + 1])]]]

InputFiles ==
    {table_file(Headers[h], first, n) :
        h \in DOMAIN Headers, first \in DOMAIN RowCases, n \in 1..MaxRows}
    \cup {no_file, [no_file EXCEPT !.exists = TRUE, !.parsable = FALSE]}

Init ==
    /\ script \in Scripts
    /\ pc = "start"
    /\ input_file \in InputFiles
    /\ output_file \in {no_file, [no_file EXCEPT !.writable = FALSE]}
    /\ df = empty_df
    /\ df_extracted = empty_df
    /\ df_scored = empty_df
    /\ printed = <<>>
    /\ status = -1
    /\ first_scored = empty_df
    /\ run = 1

Next == Read \/ Extract \/ Score \/ Save \/ Summary \/ Rerun

Spec == Init /\ [][Next]_vars

---------------------------------------------------------------------------
(* The scoring rules as the specification states them.                     *)

PWB == [name |-> "pwb", total |-> 7,
        items   |-> {"gp1", "gp2", "gp3", "gp4", "gp5", "gp6", "gp7"},
        reverse |-> {"gp1", "gp2", "gp3", "gp4", "gp5", "gp6", "gp7"}]
SWB == [name |-> "swb", total |-> 7,
        items   |-> {"gs1", "gs2", "gs3", "gs4", "gs5", "gs6", "gs7"},
        reverse |-> {}]
EWB == [name |-> "ewb", total |-> 6,
        items   |-> {"ge1", "ge2", "ge3", "ge4", "ge5", "ge6"},
        reverse |-> {"ge1", "ge3", "ge4", "ge5", "ge6"}]
FWB == [name |-> "fwb", total |-> 7,
        items   |-> {"gf1", "gf2", "gf3", "gf4", "gf5", "gf6", "gf7"},
        reverse |-> {}]
ECS == [name |-> "ecs", total |-> 17,
        items   |-> {"a_hn1", "a_hn2", "a_hn3", "a_hn4", "a_hn5", "a_hn7", "a_hn10",
                     "a_e1", "a_e2", "a_e3", "a_e4", "a_e5", "a_e6", "a_e7",
                     "a_c6", "a_c2", "a_act11"},
        reverse |-> {"a_e1", "a_e2", "a_e3", "a_e4", "a_e5", "a_e7", "a_act11",
                     "a_c2", "a_hn2", "a_hn3"}]

FactGSubscales == {PWB, SWB, EWB, FWB}
FactESubscales == {PWB, SWB, EWB, FWB, ECS}

E_scored == pc = "fact_e_scored"
G_scored == pc = "fact_g_scored"
Subscales_scored ==
    IF E_scored THEN FactESubscales ELSE IF G_scored THEN FactGSubscales ELSE {}

Rows == 1..df.index

\* the raw answer of row i to an item, as an integer, or -1 when missing
raw(c, i) == LET x == df.data[c].values[i] IN IF x = NaN THEN -1 ELSE x[1]
answered_items(S, i) == {c \in S : raw(c, i) # -1}
answered(S, i) == Cardinality(answered_items(S, i))
transformed(sub, c, i) == IF c \in sub.reverse THEN 4 - raw(c, i) ELSE raw(c, i)

RECURSIVE SumOver(_, _, _)
SumOver(sub, S, i) ==
    IF S = {} THEN 0
    ELSE LET c == CHOOSE x \in S : TRUE
         IN  transformed(sub, c, i) + SumOver(sub, S \ {c}, i)
transformed_sum(sub, i) == SumOver(sub, answered_items(sub.items, i), i)

subscale_score(sub, i) == df_scored.data[sub.name \o "_subscale_score"].values[i]
composite(name, i) == df_scored.data[name].values[i]
present(x) == x # NaN /\ x # Inf
Items(subs) == UNION {sub.items : sub \in subs}
all_present(subs, i) == \A sub \in subs : present(subscale_score(sub, i))

\* the exact sum of the subscale scores of subs, as a cell
RECURSIVE ScoreSum(_, _)
ScoreSum(subs, i) ==
    IF subs = {} THEN Num(0)
    ELSE LET sub == CHOOSE x \in subs : TRUE
         IN  FAdd(subscale_score(sub, i), ScoreSum(subs \ {sub}, i))

\* lo <= x <= hi for a cell x
in_range(x, lo, hi) == present(x) /\ lo * x[2] <= x[1] /\ x[1] <= hi * x[2]

---------------------------------------------------------------------------
(* Claims about the scoring functions (ScoreSpec).                         *)

\* C1: for every row and every subscale, the subscale score is present
\* (numeric) if and only if 2 * answered >= total; it is never the result of
\* a division by zero, and a row with answered = 0 gets an absent score.
C1_SubscaleGate ==
    \A sub \in Subscales_scored : \A i \in Rows :
        LET sc == subscale_score(sub, i)
            n  == answered(sub.items, i)
        IN  /\ present(sc) <=> 2 * n >= sub.total
            /\ sc # Inf
            /\ sc # NaN => isfinite(sc)
            /\ n = 0 => sc = NaN

\* PWB unanswered (absent), SWB 4 of 7 (present), EWB 3 of 6 (present),
\* FWB 3 of 7 (absent), ECS 9 of 17 (present)
C1_Witness ==
    /\ E_scored
    /\ \E i \in Rows :
        /\ answered(PWB.items, i) = 0 /\ subscale_score(PWB, i) = NaN
        /\ answered(SWB.items, i) = 4 /\ present(subscale_score(SWB, i))
        /\ answered(EWB.items, i) = 3 /\ present(subscale_score(EWB, i))
        /\ answered(FWB.items, i) = 3 /\ subscale_score(FWB, i) = NaN
        /\ answered(ECS.items, i) = 9 /\ present(subscale_score(ECS, i))

\* C2: whenever a subscale score is present, score * answered = total * (sum
\* of the transformed answered items), where transformed = 4 - raw on the
\* reverse set and raw otherwise; each item score column holds the
\* transformed value, missing where the raw value is missing; a fully
\* answered subscale scores exactly the sum of its transformed items.
C2_ProratedSum ==
    \A sub \in Subscales_scored : \A i \in Rows :
        LET sc == subscale_score(sub, i)
            n  == answered(sub.items, i)
        IN  /\ \A c \in sub.items :
                 df_scored.data[c \o "_score"].values[i] =
                     IF raw(c, i) = -1 THEN NaN ELSE Num(transformed(sub, c, i))
            /\ present(sc) => sc[1] * n = sub.total * transformed_sum(sub, i) * sc[2]
            /\ n = sub.total => sc = Num(transformed_sum(sub, i))

\* a PWB with 4 of 7 items answered is prorated to a non-integer score, a
\* fully answered SWB scores the plain sum, and ECS has 11 of 17 answered
C2_Witness ==
    /\ E_scored
    /\ \E i \in Rows :
        /\ answered(PWB.items, i) = 4
        /\ present(subscale_score(PWB, i)) /\ subscale_score(PWB, i)[2] # 1
        /\ answered(SWB.items, i) = 7
        /\ subscale_score(SWB, i) = Num(transformed_sum(SWB, i))
        /\ transformed_sum(SWB, i) > 0
        /\ answered(ECS.items, i) = 11 /\ present(subscale_score(ECS, i))

\* Scenario A: PWB all 0 scores 28
C2_WitnessScenarioA ==
    /\ E_scored
    /\ \E i \in Rows :
        /\ \A c \in PWB.items : raw(c, i) = 0
        /\ subscale_score(PWB, i) = Num(28)

\* C3: fact_g_total is present iff the PWB, SWB, EWB and FWB scores are all
\* present and at least 22 of the 27 FACT-G items are answered; toi is
\* present iff the PWB, FWB and ECS scores are all present and at least 25 of
\* the 31 TOI items are answered; a present composite is the sum of its
\* subscale scores.
C3_CompositeGate ==
    /\ (E_scored \/ G_scored) =>
         \A i \in Rows :
            LET t == composite("fact_g_total", i)
            IN  /\ present(t) <=> /\ all_present(FactGSubscales, i)
                                  /\ answered(Items(FactGSubscales), i) >= 22
                /\ t # NaN => t = ScoreSum(FactGSubscales, i)
    /\ E_scored =>
         \A i \in Rows :
            LET t == composite("toi", i)
            IN  /\ present(t) <=> /\ all_present({PWB, FWB, ECS}, i)
                                  /\ answered(Items({PWB, FWB, ECS}), i) >= 25
                /\ t # NaN => t = ScoreSum({PWB, FWB, ECS}, i)

\* Scenario D: the four subscale gates pass with 20 of 27 items answered and
\* fact_g_total is absent, while toi is present with exactly 25 of 31
C3_Witness ==
    /\ E_scored
    /\ \E i \in Rows :
        /\ all_present(FactGSubscales, i)
        /\ answered(Items(FactGSubscales), i) = 20
        /\ composite("fact_g_total", i) = NaN
        /\ answered(Items({PWB, FWB, ECS}), i) = 25
        /\ present(composite("toi", i))

\* Scenario C: exactly 22 of 27 answered, all four subscales present
C3_WitnessPresent ==
    /\ G_scored
    /\ \E i \in Rows :
        /\ all_present(FactGSubscales, i)
        /\ answered(Items(FactGSubscales), i) = 22
        /\ present(composite("fact_g_total", i))

\* C4: fact_e_total is present iff fact_g_total is present (all four FACT-G
\* subscales present and at least 22 of 27 FACT-G items answered) and the ECS
\* score is present and at least 36 of the 44 FACT-E items are answered; when
\* present it is fact_g_total + ecs_subscale_score.
C4_FactETwoLevelGate ==
    E_scored =>
        \A i \in Rows :
            LET t == composite("fact_e_total", i)
            IN  /\ present(t) <=> /\ present(composite("fact_g_total", i))
                                  /\ present(subscale_score(ECS, i))
                                  /\ answered(Items(FactESubscales), i) >= 36
                /\ present(t) <=> /\ all_present(FactESubscales, i)
                                  /\ answered(Items(FactGSubscales), i) >= 22
                                  /\ answered(Items(FactESubscales), i) >= 36
                /\ t # NaN => t = FAdd(composite("fact_g_total", i),
                                       subscale_score(ECS, i))

\* at least 36 of 44 answered and all five subscale scores present, but fewer
\* than 22 FACT-G items answered: fact_e_total is absent
C4_Witness ==
    /\ E_scored
    /\ \E i \in Rows :
        /\ answered(Items(FactESubscales), i) >= 36
        /\ all_present(FactESubscales, i)
        /\ answered(Items(FactGSubscales), i) < 22
        /\ composite("fact_e_total", i) = NaN

\* the columns the two modules share
SharedColumns ==
    {c \o "_score" : c \in Items(FactGSubscales)}
    \cup {sub.name \o "_subscale_score" : sub \in FactGSubscales}
    \cup {"fact_g_total"}

\* C9: the item score columns, the pwb, swb, ewb and fwb subscale scores and
\* fact_g_total computed by calculate_fact_g_scores equal those computed by
\* calculate_fact_e_scores on the same rows, whatever the ECS items hold.
C9_ModulesAgree ==
    G_scored =>
        LET e == calculate_fact_e_scores(df).df
        IN  \A c \in SharedColumns :
                /\ c \in DOMAIN df_scored.data
                /\ df_scored.data[c].values = e.data[c].values

\* FACT-G scored a row with a present, prorated total and some ECS answers
C9_Witness ==
    /\ G_scored
    /\ \E i \in Rows :
        /\ present(composite("fact_g_total", i))
        /\ composite("fact_g_total", i)[2] # 1
        /\ answered(ECS.items, i) = 8

\* C10: with every raw value in 0..4 or missing, each transformed item score
\* is in 0..4, each present subscale score lies in [0, 4 * total], a present
\* fact_g_total in [0, 108], a present fact_e_total in [0, 176] and a present
\* toi in [0, 124].
C10_ScoresInRange ==
    /\ \A sub \in Subscales_scored : \A i \in Rows :
        /\ \A c \in sub.items :
             LET x == df_scored.data[c \o "_score"].values[i]
             IN  x # NaN => in_range(x, 0, 4)
        /\ subscale_score(sub, i) # NaN =>
             in_range(subscale_score(sub, i), 0, 4 * sub.total)
    /\ (E_scored \/ G_scored) =>
         \A i \in Rows :
            composite("fact_g_total", i) # NaN =>
                in_range(composite("fact_g_total", i), 0, 108)
    /\ E_scored =>
         \A i \in Rows :
            /\ composite("fact_e_total", i) # NaN =>
                 in_range(composite("fact_e_total", i), 0, 176)
            /\ composite("toi", i) # NaN => in_range(composite("toi", i), 0, 124)

\* a PWB prorated from 4 answers reaches the top of its scale, and all three
\* composites are present
C10_Witness ==
    /\ E_scored
    /\ \E i \in Rows :
        /\ answered(PWB.items, i) = 4
        /\ subscale_score(PWB, i) = Num(28)
        /\ subscale_score(SWB, i) = Num(0)
        /\ present(composite("fact_g_total", i))
        /\ present(composite("fact_e_total", i))
        /\ present(composite("toi", i))

---------------------------------------------------------------------------
(* Claims about the programs (Spec).                                       *)

\* the fixed column list of each instrument: id, then the items
FixedList(s) ==
    <<"id", "gp1", "gp2", "gp3", "gp4", "gp5", "gp6", "gp7",
      "gs1", "gs2", "gs3", "gs4", "gs5", "gs6", "gs7",
      "ge1", "ge2", "ge3", "ge4", "ge5", "ge6",
      "gf1", "gf2", "gf3", "gf4", "gf5", "gf6", "gf7">>
    \o (IF s = "FACT_G" THEN <<>>
        ELSE <<"a_hn1", "a_hn2", "a_hn3", "a_hn4", "a_hn5", "a_hn7", "a_hn10",
               "a_e1", "a_e2", "a_e3", "a_e4", "a_e5", "a_e6", "a_e7",
               "a_c6", "a_c2", "a_act11">>)

InstrumentItems(s) == Range(FixedList(s)) \ {"id"}
position(list, c) == CHOOSE j \in DOMAIN list : list[j] = c

\* what a successful run prints, in order
success_log(s) ==
    <<msg_reading, msg_extracting(s), msg_calculating(s), msg_saving,
      msg_completed(s), msg_summary>>

ErrorLines ==
    {"Error: " \o t :
        t \in {"No such file or directory", "Error tokenizing data", "Permission denied"}
              \cup {"'" \o c \o "'" : c \in Range(FixedList("FACT_E"))
                                             \cup Range(E_score_columns)}}

is_prefix(a, b) == Len(a) <= Len(b) /\ a = SubSeq(b, 1, Len(a))
input_usable == input_file.exists /\ input_file.parsable

\* C5: when an item column of the instrument is entirely absent from the
\* input table, extraction followed by scoring raises no error and the run
\* completes successfully.
C5_AbsentColumnTolerated ==
    (/\ input_usable
     /\ InstrumentItems(script) \ Range(input_file.header) # {}
     /\ output_file.writable
     /\ pc = "exit")
    => status = 0 /\ output_file.exists

\* C6: main is the linear sequence read, extract, score, save, summary; its
\* exit status is 1 with a printed error message whenever a step fails and 0
\* exactly when every step succeeded; the output file is written only after
\* reading, extraction and scoring succeeded; no step runs after a failed one.
C6_ExitStatus ==
    LET log    == success_log(script)
        failed == printed # <<>> /\ printed[Len(printed)] \in ErrorLines
        steps  == IF failed THEN SubSeq(printed, 1, Len(printed) - 1) ELSE printed
    IN  /\ is_prefix(steps, log)
        /\ \A j \in DOMAIN steps : steps[j] \notin ErrorLines
        /\ pc = "exit" <=> status \in {0, 1}
        /\ pc # "exit" => status = -1 /\ ~failed
        /\ status = 0 <=> printed = log
        /\ status = 1 <=> failed
        /\ failed => Len(steps) \in 1..4
        /\ (pc = "exit" /\ ~input_usable) => status = 1 /\ Len(steps) = 1
        /\ (pc = "exit" /\ input_usable /\ df_scored # empty_df
              /\ ~output_file.exists) => status = 1 /\ Len(steps) = 4
        /\ output_file.exists =>
              /\ is_prefix(SubSeq(log, 1, 4), printed)
              /\ df # empty_df /\ df_extracted # empty_df /\ df_scored # empty_df
              /\ output_file = to_csv(df_scored)
        /\ (failed /\ Len(steps) <= 1) => df = empty_df
        /\ (failed /\ Len(steps) <= 2) => df_extracted = empty_df
        /\ (failed /\ Len(steps) <= 3) => df_scored = empty_df
        /\ failed => ~output_file.exists

\* the output cannot be written: exit status 1 after four steps
C6_Witness ==
    /\ pc = "exit" /\ status = 1
    /\ Len(printed) = 5
    /\ df_scored # empty_df
    /\ ~output_file.exists

\* a run with every step succeeding
C6_WitnessSuccess ==
    /\ pc = "exit" /\ status = 0 /\ output_file.exists /\ run = 1

\* C7: the extractor returns the columns that are both in the input and in
\* the instrument's fixed list, in the fixed-list order with id first when
\* present; it never fails because an item column is absent, includes no
\* other column, and leaves the input table and every retained cell unchanged.
C7_Projection ==
    /\ pc = "read" => extract_columns(script, df).raised = ""
    /\ Len(printed) = 3 => printed[3] \notin ErrorLines
    /\ pc = "extracted" =>
         LET cols == df_extracted.columns
             list == FixedList(script)
         IN  /\ Range(cols) = Range(df.columns) \cap Range(list)
             /\ \A a, b \in DOMAIN cols :
                    a < b => position(list, cols[a]) < position(list, cols[b])
             /\ "id" \in Range(df.columns) => cols[1] = "id"
             /\ DOMAIN df_extracted.data = Range(cols)
             /\ df_extracted.index = df.index
             /\ \A c \in Range(cols) : df_extracted.data[c] = df.data[c]
             /\ df = read_csv(input_file).df

\* FACT-E extraction of a table in another order, with a column outside the
\* list, id last and the item a_c6 absent
C7_Witness ==
    /\ pc = "extracted" /\ script = "FACT_E"
    /\ "a_c6" \notin Range(df.columns)
    /\ "notes" \in Range(df.columns)
    /\ df.columns[1] # "id"
    /\ df_extracted.columns[1] = "id"
    /\ Len(df_extracted.columns) = 44

DerivedColumns(d) == Range(d.columns) \ Range(FixedList("FACT_E"))

\* C8: re-running the program on its own output reproduces identical derived
\* columns: the output keeps the id and raw item columns unchanged, the
\* extractor discards every derived column, and every derived column of the
\* second run equals that of the first run.
C8_Idempotent ==
    run = 2 =>
        /\ pc \notin {"start"} =>
             /\ DerivedColumns(df) = DerivedColumns(first_scored)
             /\ \A c \in Range(df.columns) \ DerivedColumns(df) :
                    df.data[c] = first_scored.data[c]
        /\ pc \notin {"start", "read"} =>
             /\ DerivedColumns(df_extracted) = {}
             /\ DOMAIN df_extracted.data = Range(df_extracted.columns)
        /\ pc \notin {"start", "read", "extracted"} =>
             /\ df_scored.columns = first_scored.columns
             /\ df_scored.index = first_scored.index
             /\ \A c \in Range(df_scored.columns) :
                    df_scored.data[c].values = first_scored.data[c].values
        /\ pc = "exit" => status = 0

\* the second run has scored a table with a missing answer, and a derived
\* score whose text in the file is not its exact value
C8_Witness ==
    /\ run = 2 /\ pc = "scored"
    /\ \E c \in DerivedColumns(df) : \E i \in 1..df.index :
          /\ first_scored.data[c].values[i] # NaN
          /\ df.data[c].values[i] # first_scored.data[c].values[i]
    /\ \E c \in InstrumentItems(script) : \E i \in 1..df.index :
          df.data[c].values[i] = NaN

=============================================================================
